---- MODULE Spec2Model ----
(***************************************************************************)
(* Model of perf/local_thr.cpp: the orchestrator (main) receives messages  *)
(* from a PULL socket and hands each one after the first to a file_writer  *)
(* thread; thread handles are kept in file_writer_thread[i % no_threads]   *)
(* and a slot is joined before it is reused.                                *)
(*                                                                         *)
(* Identities used by the model:                                           *)
(*   payload r   : the r-th received message (0 = the first one)           *)
(*   buffer  b   : the b-th zmq_msg_t allocated with new (1, 2, ...)       *)
(*   thread  t   : the t-th thread created (1, 2, ...; 0 = empty handle)   *)
(***************************************************************************)
EXTENDS Integers, FiniteSets, Sequences, TLC

\* ---------------------------------------------------------------- constants

\* #define MAX_THREADS 10
MAX_THREADS == 10

\* the interval of the periodic report: i % 1000 == 0
INTERVAL == 1000

\* ------------------------------------------------------------------- bounds

\* largest message_count of the runs with faults, disk mode and several slots
MaxCount == 4

\* anomalous messages (wrong size, counter gap) the network may deliver
MaxAnomalies == 1

\* message_count of the long run, which reaches the first interval report
LongCount == INTERVAL + 2

\* values of atoi(argv[5]); 11 is clamped to MAX_THREADS
ThreadArgs == {-1, 0, 1, 2, 3, 11}

VARIABLES
    argc,                \* number of command line words (program name included)
    message_count,       \* atoi(argv[3])
    thread_arg,          \* atoi(argv[5]), read only when argc > 5
    disk_name,           \* argv[4]
    no_threads,          \* main's no_threads
    pc,                  \* main's position
    exit_code,           \* main's return value: {} while running, {rc} after return
    net,                 \* transport objects acquired: subset of {"ctx","socket","bound","msg"}
    i,                   \* main's loop index
    msg,                 \* payloads held by main's receive buffer msg: {} or {r}
    msg_counter,         \* main's msg_counter
    wire_counter,        \* counter carried by the message last sent on the wire
    msg_copy,            \* main's msg_copy pointer: {} or {b}
    thread_ctr,          \* the global thread_ctr
    file_writer_thread,  \* main's array of thread handles
    threads,             \* created and not yet joined threads: tid -> record
    heap,                \* zmq_msg_t objects allocated with new: buffer -> record
    opened,              \* files opened so far: set of <<tid, file index>>
    anomalies,           \* anomalous messages the network may still deliver
    n_recv,              \* zmq_recvmsg calls that returned a message
    n_created,           \* pthread_create calls
    n_size_diag,         \* "message of incorrect size" lines printed
    n_gap_diag,          \* "data corrupt" lines printed
    n_nonunit,           \* messages delivered whose counter is not the previous one + 1
    win_1000,            \* messages received since watch_1000 was (re)started
    win_all,             \* messages received since watch was started
    interval_cover,      \* win_1000 when the last interval report stopped watch_1000
    n_reports,           \* interval reports printed
    report_count         \* message count the aggregate report divides by elapsed

vars == <<argc, message_count, thread_arg, disk_name, no_threads, pc, exit_code,
          net, i, msg, msg_counter, wire_counter, msg_copy, thread_ctr,
          file_writer_thread, threads, heap, opened, anomalies, n_recv,
          n_created, n_size_diag, n_gap_diag, n_nonunit, win_1000, win_all,
          interval_cover, n_reports, report_count>>

cfgVars == <<argc, message_count, thread_arg, disk_name>>
timerVars == <<win_1000, win_all, interval_cover, n_reports, report_count>>
diagVars == <<n_size_diag, n_gap_diag, n_nonunit>>
workerVars == <<threads, heap, opened>>

Slots == 0 .. MAX_THREADS - 1

\* ------------------------------------------------------------------ helpers

\* the sentinel is not tested: every run writes files
DiskModeAlways == TRUE

\* strcmp(disk_name, "/network") != 0
DiskMode == disk_name # "/network"

\* if (no_threads > MAX_THREADS) no_threads = MAX_THREADS; (no lower check)
ClampThreads(n) == IF n > MAX_THREADS THEN MAX_THREADS ELSE n

\* the slot one further than the round's
SlotOfNext(idx, n) == IF n > 0 THEN (idx + 1) % n ELSE (idx + 1) % (0 - n)

\* i % no_threads for i >= 0 and no_threads # 0: C++ truncates toward zero, so
\* the sign of the divisor does not matter
SlotOf(idx, n) == IF n > 0 THEN idx % n ELSE idx % (0 - n)

\* ---------------------------------------------------------------------- Init

\* too few arguments
UsageRun ==
    /\ argc = 4
    /\ message_count = 1
    /\ thread_arg = 1
    /\ disk_name = "/network"
    /\ anomalies = 0

\* the runs with argv[5]: every thread argument, both modes, up to MaxCount
\* messages, a reliable network
ThreadRun ==
    /\ argc = 6
    /\ message_count \in 0 .. MaxCount
    /\ thread_arg \in ThreadArgs
    /\ disk_name \in {"/network", "/mnt"}
    /\ anomalies = 0

\* the runs without argv[5] (one writer thread): both modes, up to MaxCount
\* messages, a network that delivers up to MaxAnomalies anomalous messages
DefaultRun ==
    /\ argc = 5
    /\ message_count \in 0 .. MaxCount
    /\ thread_arg = 1
    /\ disk_name \in {"/network", "/mnt"}
    /\ anomalies = MaxAnomalies

\* the long run: one writer thread, no disk, a reliable network
LongRun ==
    /\ argc = 5
    /\ message_count = LongCount
    /\ thread_arg = 1
    /\ disk_name = "/network"
    /\ anomalies = 0

Init ==
    /\ (UsageRun \/ ThreadRun \/ DefaultRun \/ LongRun)
    /\ no_threads = 1
    /\ pc = "start"
    /\ exit_code = {}
    /\ net = {}
    /\ i = 0
    /\ msg = {}
    /\ msg_counter = 0
    /\ wire_counter = 0
    /\ msg_copy = {}
    /\ thread_ctr = 0
    /\ file_writer_thread = [s \in Slots |-> 0]
    /\ threads = [t \in {} |-> 0]
    /\ heap = [b \in {} |-> 0]
    /\ opened = {}
    /\ n_recv = 0
    /\ n_created = 0
    /\ n_size_diag = 0
    /\ n_gap_diag = 0
    /\ n_nonunit = 0
    /\ win_1000 = 0
    /\ win_all = 0
    /\ interval_cover = 0
    /\ n_reports = 0
    /\ report_count = 0

\* ------------------------------------------------------------ main: set-up

Running == exit_code = {} /\ pc # "crashed"

\* return rc; from main: the process ends and its threads end with it
Return(rc) ==
    /\ pc' = "exit"
    /\ exit_code' = {rc}

loopVars == <<i, msg, msg_counter, wire_counter, msg_copy, thread_ctr,
              file_writer_thread, anomalies, n_recv, n_created>>

\* the test one word short: a run without argv[4] is let through
UsageErrorOneShort == argc < 4

\* if (argc < 5) (line 106)
UsageError == argc < 5

\* lines 106-121: the argument count check and the parse of the arguments
ParseArgs ==
    /\ pc = "start"
    /\ \/ /\ UsageError
          /\ Return(1)
          /\ UNCHANGED no_threads
       \/ /\ ~UsageError
          /\ no_threads' = (IF argc > 5 THEN ClampThreads(thread_arg) ELSE 1)
          /\ pc' = "zmq_init"
          /\ UNCHANGED exit_code
    /\ UNCHANGED <<cfgVars, net, loopVars, workerVars, diagVars, timerVars>>

\* a set-up call whose failure is not tested: main goes on without the object
SetupStepUnchecked(at, what, next) ==
    /\ pc = at
    /\ \/ net' = net \cup {what}
       \/ UNCHANGED net
    /\ pc' = next
    /\ UNCHANGED <<cfgVars, no_threads, exit_code, loopVars, workerVars,
                   diagVars, timerVars>>

\* one set-up call of lines 126-151: it adds `what` to the transport objects
\* held, or fails and main returns -1
SetupStep(at, what, next) ==
    /\ pc = at
    /\ \/ /\ net' = net \cup {what}
          /\ pc' = next
          /\ UNCHANGED exit_code
       \/ /\ Return(-1)
          /\ UNCHANGED net
    /\ UNCHANGED <<cfgVars, no_threads, loopVars, workerVars, diagVars, timerVars>>

ZmqInit == SetupStep("zmq_init", "ctx", "zmq_socket")
ZmqSocket == SetupStep("zmq_socket", "socket", "zmq_bind")
ZmqBind == SetupStep("zmq_bind", "bound", "zmq_msg_init")
ZmqMsgInit == SetupStep("zmq_msg_init", "msg", "recv_first")

\* what the network delivers next: the counter step (1 when nothing was lost,
\* 2 after a lost message, 0 for a repeated one) and whether the size is the
\* expected one; an anomalous message uses up one of the anomalies the run
\* allows
Deliveries == {d \in [step : {0, 1, 2}, size_ok : BOOLEAN] :
                  (d.step = 1 /\ d.size_ok) \/ anomalies > 0}

Anomalous(d) == ~(d.step = 1 /\ d.size_ok)

\* a diagnostic that ends the run
DiagnosticReturnsError(d) == IF Anomalous(d) THEN {-1} ELSE {}

\* what main returns after the diagnostics of a received message: nothing, it
\* goes on (the return -1 of lines 161 and 184 is commented out, and the
\* counter check of lines 188-190 only prints)
DiagnosticReturns(d) == {}

\* where main is after the checks of a received message
AfterChecks(rcs, next) == IF rcs = {} THEN next ELSE "exit"

\* the baseline is kept when the counters do not follow each other
KeepBaselineOnGap(prev, cur) == IF cur - prev # 1 THEN prev ELSE cur

\* msg_counter = *(int*) zmq_msg_data(&msg); (line 192)
NextBaseline(prev, cur) == cur

\* if ((new_msg_counter - msg_counter) != 1) (line 188)
GapFlagged(prev, cur) == cur - prev # 1

\* lines 153-166: the first message sets the baseline counter and starts both
\* stopwatches; it is not handed to a thread
RecvFirst ==
    /\ pc = "recv_first"
    /\ \/ /\ Return(-1)
          /\ UNCHANGED <<msg, msg_counter, wire_counter, anomalies, n_recv,
                         n_size_diag, win_1000, win_all>>
       \/ \E d \in Deliveries :
          /\ d.step = 1
          /\ msg' = {0}
          /\ n_recv' = n_recv + 1
          /\ anomalies' = (IF Anomalous(d) THEN anomalies - 1 ELSE anomalies)
          /\ n_size_diag' = (IF d.size_ok THEN n_size_diag ELSE n_size_diag + 1)
          /\ wire_counter' = 0
          /\ msg_counter' = wire_counter'
          /\ win_1000' = 0
          /\ win_all' = 0
          /\ exit_code' = DiagnosticReturns(d)
          /\ pc' = AfterChecks(exit_code', "loop")
    /\ UNCHANGED <<cfgVars, no_threads, net, i, msg_copy, thread_ctr,
                   file_writer_thread, n_created, workerVars, n_gap_diag,
                   n_nonunit, interval_cover, n_reports, report_count>>

\* ------------------------------------------------------- main: receive loop

\* the loop of line 174 ends when i == message_count - 1; with
\* message_count < 1 it never does, and the model stops it after MaxCount rounds
LoopCap == IF message_count >= 1 THEN message_count ELSE MaxCount

\* the loop test off by one: one round too many
LoopContinuesOneMore == i # message_count

\* for (...; i != message_count - 1; ...)
LoopContinues == i # message_count - 1

\* a copy instead of a move: src keeps the content
ZmqMsgCopy(src) == [dest |-> src, src |-> src]

\* zmq_msg_move(msg_copy, &msg): dest takes the content, src is left empty
ZmqMsgMove(src) == [dest |-> src, src |-> {}]

\* the buffer allocated in round i, the thread created in round i
NewId == i + 1

\* the slot of round i; with no_threads = 0 the remainder is undefined: the
\* build either traps or (a divide that yields 0) leaves the dividend
Slot == IF no_threads = 0 THEN i ELSE SlotOf(i, no_threads)

\* the slot is reused without a join
MustJoinNever(slot) == FALSE

\* if (file_writer_thread[i % no_threads] != 0)
MustJoin(slot) == file_writer_thread[slot] # 0

\* if (i > 0 && i % 1000 == 0)
ReportDue == i > 0 /\ i % INTERVAL = 0

\* lines 176-192: receive message i+1, check its size and its counter
LoopRecv ==
    /\ pc = "loop"
    /\ LoopContinues
    /\ i < LoopCap
    /\ \/ /\ Return(-1)
          /\ UNCHANGED <<msg, msg_counter, wire_counter, anomalies, n_recv,
                         diagVars, win_1000, win_all>>
       \/ \E d \in Deliveries :
          /\ msg' = {i + 1}
          /\ n_recv' = n_recv + 1
          /\ anomalies' = (IF Anomalous(d) THEN anomalies - 1 ELSE anomalies)
          /\ n_size_diag' = (IF d.size_ok THEN n_size_diag ELSE n_size_diag + 1)
          /\ wire_counter' = wire_counter + d.step
          /\ n_nonunit' = (IF d.step = 1 THEN n_nonunit ELSE n_nonunit + 1)
          /\ n_gap_diag' = (IF GapFlagged(msg_counter, wire_counter')
                             THEN n_gap_diag + 1 ELSE n_gap_diag)
          /\ msg_counter' = NextBaseline(msg_counter, wire_counter')
          /\ win_1000' = win_1000 + 1
          /\ win_all' = win_all + 1
          /\ exit_code' = DiagnosticReturns(d)
          /\ pc' = AfterChecks(exit_code', "move")
    /\ UNCHANGED <<cfgVars, no_threads, net, i, msg_copy, thread_ctr,
                   file_writer_thread, n_created, workerVars,
                   interval_cover, n_reports, report_count>>

\* lines 193-195: allocate msg_copy and move the received message into it
LoopMove ==
    /\ pc = "move"
    /\ msg_copy' = {NewId}
    /\ heap' = (NewId :> [content |-> ZmqMsgMove(msg).dest, frees |-> 0]) @@ heap
    /\ msg' = ZmqMsgMove(msg).src
    /\ pc' = "join"
    /\ UNCHANGED <<cfgVars, no_threads, exit_code, net, i, msg_counter,
                   wire_counter, thread_ctr, file_writer_thread, threads, opened,
                   anomalies, n_recv, n_created, diagVars, timerVars>>

\* the heap without the buffer of a joined thread, once it was freed
Reap(t) == [b \in {x \in DOMAIN heap : ~(x \in threads[t].buf /\ heap[x].frees = 1)}
               |-> heap[b]]

\* lines 197-199: wait for the thread that last used the slot, if any
LoopJoin ==
    /\ pc = "join"
    /\ no_threads # 0 /\ Slot \in Slots
    /\ \/ /\ MustJoin(Slot)
          /\ LET t == file_writer_thread[Slot] IN
             /\ t \in DOMAIN threads
             /\ threads[t].pc = "done"
             /\ threads' = [x \in DOMAIN threads \ {t} |-> threads[x]]
             /\ heap' = Reap(t)
       \/ /\ ~MustJoin(Slot)
          /\ UNCHANGED <<threads, heap>>
    /\ pc' = "create"
    /\ UNCHANGED <<cfgVars, no_threads, exit_code, net, loopVars, opened,
                   diagVars, timerVars>>

\* line 197 with no_threads = 0: i % 0 is undefined; the build traps (the
\* process is killed) or goes on with the slot Slot; a slot outside the array
\* is undefined too
LoopUndefined ==
    /\ pc = "join"
    /\ ~(no_threads # 0 /\ Slot \in Slots)
    /\ \/ /\ pc' = "crashed"
          /\ UNCHANGED <<threads, heap>>
       \/ /\ Slot \in Slots
          /\ ~MustJoin(Slot)
          /\ pc' = "create"
          /\ UNCHANGED <<threads, heap>>
    /\ UNCHANGED <<cfgVars, no_threads, exit_code, net, loopVars, opened,
                   diagVars, timerVars>>

\* lines 201-202: start a file_writer on msg_copy and keep its handle
LoopCreate ==
    /\ pc = "create"
    /\ threads' = (NewId :> [pc |-> "start", buf |-> msg_copy, slot |-> Slot,
                             ctr |-> thread_ctr]) @@ threads
    /\ file_writer_thread' = [file_writer_thread EXCEPT ![Slot] = NewId]
    /\ n_created' = n_created + 1
    /\ msg_copy' = {}
    /\ pc' = "incr"
    /\ UNCHANGED <<cfgVars, no_threads, exit_code, net, i, msg, msg_counter,
                   wire_counter, thread_ctr, heap, opened, anomalies, n_recv,
                   diagVars, timerVars>>

\* lines 203-215 and the i++ of line 174: count the thread, print the
\* interval report when it is due
LoopIncr ==
    /\ pc = "incr"
    /\ thread_ctr' = thread_ctr + 1
    /\ IF ReportDue
       THEN /\ interval_cover' = win_1000
            /\ n_reports' = n_reports + 1
            /\ win_1000' = 0
       ELSE UNCHANGED <<interval_cover, n_reports, win_1000>>
    /\ i' = i + 1
    /\ pc' = "loop"
    /\ UNCHANGED <<cfgVars, no_threads, exit_code, net, msg, msg_counter,
                   wire_counter, msg_copy, file_writer_thread, workerVars,
                   anomalies, n_recv, n_created, diagVars, win_all, report_count>>

\* ----------------------------------------------------- main: report, exit

\* the number the aggregate throughput divides by elapsed (line 229)
AggregateCount == message_count

\* lines 219-238: stop the full-run stopwatch, close msg, print the report
Finish ==
    /\ pc = "loop"
    /\ ~LoopContinues
    /\ \/ /\ Return(-1)
          /\ UNCHANGED <<net, msg, report_count>>
       \/ /\ net' = net \ {"msg"}
          /\ msg' = {}
          /\ report_count' = AggregateCount
          /\ pc' = "zmq_close"
          /\ UNCHANGED exit_code
    /\ UNCHANGED <<cfgVars, no_threads, i, msg_counter, wire_counter, msg_copy,
                   thread_ctr, file_writer_thread, workerVars, anomalies, n_recv,
                   n_created, diagVars, win_1000, win_all, interval_cover,
                   n_reports>>

\* lines 240-244
ZmqClose ==
    /\ pc = "zmq_close"
    /\ \/ /\ Return(-1)
          /\ UNCHANGED net
       \/ /\ net' = net \ {"socket", "bound"}
          /\ pc' = "zmq_term"
          /\ UNCHANGED exit_code
    /\ UNCHANGED <<cfgVars, no_threads, loopVars, workerVars, diagVars, timerVars>>

\* lines 246-252
ZmqTerm ==
    /\ pc = "zmq_term"
    /\ \/ /\ Return(-1)
          /\ UNCHANGED net
       \/ /\ net' = net \ {"ctx"}
          /\ Return(0)
    /\ UNCHANGED <<cfgVars, no_threads, loopVars, workerVars, diagVars, timerVars>>

\* ------------------------------------------------------------- file_writer

mainVars == <<cfgVars, no_threads, pc, exit_code, net, loopVars, diagVars,
              timerVars>>

\* the index read one increment late
FileIndexAfter(t) == thread_ctr + 1

\* the index sprintf puts in the file name (line 67): the global thread_ctr,
\* read when the thread gets there; the read is not synchronised with main's
\* thread_ctr++ and yields the value before or after it
FileIndex(t) == thread_ctr

\* what file_writer does with its message when fopen fails (lines 69-72):
\* it returns, and the message is neither closed nor freed
OnOpenFailure(h, b) == h

\* zmq_msg_close(msg); free(msg); (lines 76-77)
Release(h, b) ==
    [h EXCEPT ![b] = [content |-> {}, frees |-> h[b].frees + 1]]

ReleaseAll(h, bs) ==
    [b \in DOMAIN h |-> IF b \in bs THEN Release(h, b)[b] ELSE h[b]]

SetPc(t, p) == [threads EXCEPT ![t].pc = p]

\* lines 66-72 in disk mode: build the file name and open the file
WriterOpen(t) ==
    /\ Running
    /\ t \in DOMAIN threads
    /\ threads[t].pc = "start"
    /\ DiskMode
    /\ \/ /\ opened' = opened \cup {<<t, FileIndex(t)>>}
          /\ threads' = SetPc(t, "opened")
          /\ UNCHANGED heap
       \/ /\ heap' = OnOpenFailure(heap, threads[t].buf)
          /\ threads' = SetPc(t, "done")
          /\ UNCHANGED opened
    /\ UNCHANGED mainVars

\* lines 73-78: in disk mode write the message's data and close the file; in
\* both modes close and free the message, return
WriterRelease(t) ==
    /\ Running
    /\ t \in DOMAIN threads
    /\ \/ threads[t].pc = "opened"
       \/ threads[t].pc = "start" /\ ~DiskMode
    /\ heap' = ReleaseAll(heap, threads[t].buf)
    /\ threads' = SetPc(t, "done")
    /\ UNCHANGED <<mainVars, opened>>

\* --------------------------------------------------------------------- Next

Next ==
    \/ ParseArgs
    \/ ZmqInit
    \/ ZmqSocket
    \/ ZmqBind
    \/ ZmqMsgInit
    \/ RecvFirst
    \/ LoopRecv
    \/ LoopMove
    \/ LoopJoin
    \/ LoopUndefined
    \/ LoopCreate
    \/ LoopIncr
    \/ Finish
    \/ ZmqClose
    \/ ZmqTerm
    \/ \E t \in DOMAIN threads : WriterOpen(t)
    \/ \E t \in DOMAIN threads : WriterRelease(t)

Spec == Init /\ [][Next]_vars

\* the run does not stop while a step is possible: main's calls return (a
\* blocking zmq_recvmsg gets its message, pthread_join its thread) and the
\* threads are scheduled
LiveSpec == Spec /\ WF_vars(Next)

\* ------------------------------------------------------------------- claims

\* threads created and not yet finished
ThreadsAlive == {t \in DOMAIN threads : threads[t].pc # "done"}

\* buffers allocated for a hand-off and not yet released
Unreleased == {b \in DOMAIN heap : heap[b].frees = 0}

ValidThreads == no_threads \in 1 .. MAX_THREADS

\* a configuration the usage text allows: at least one message, 1..10 threads
ValidRun == message_count >= 1 /\ ValidThreads

\* C1: with a worker count N in 1..10, at most N threads that were created and
\* have not finished exist in every reachable state.
C1_AtMostNAlive ==
    ValidThreads => Cardinality(ThreadsAlive) <= no_threads

\* C1 witness: two slots, both threads still running, main waiting to reuse one
C1_Witness ==
    /\ no_threads = 2
    /\ pc = "join"
    /\ MustJoin(Slot)
    /\ Cardinality(ThreadsAlive) = 2

\* C2: two threads created in rounds i < j with i mod N = j mod N never coexist:
\* the earlier one has finished and has been joined (it has left `threads`)
\* before the later one is created.
C2_JoinBeforeReuse ==
    ValidThreads =>
        \A t1, t2 \in DOMAIN threads :
            t1 < t2 => (t1 - 1) % no_threads # (t2 - 1) % no_threads

\* C2 witness: a slot has been reused: the thread of round i is there and the
\* thread of round i - N, which used the same slot, is gone
C2_Witness ==
    /\ no_threads = 2
    /\ pc = "incr"
    /\ i >= no_threads
    /\ NewId \in DOMAIN threads
    /\ NewId - no_threads \notin DOMAIN threads

\* C3: in a valid run the file index a thread uses is the value thread_ctr had
\* when the thread was dispatched (thread t, the (t-1)-th dispatched, opens
\* file t-1), and no two threads open the same file.
C3_FileIndexIsDispatchIndex ==
    ValidRun =>
        /\ \A e \in opened : e[2] = e[1] - 1
        /\ \A e1, e2 \in opened : e1[1] # e2[1] => e1[2] # e2[2]

\* C4: in a valid run every file_writer that has returned has released its
\* message.
C4_FinishedHasReleased ==
    ValidRun =>
        \A t \in DOMAIN threads :
            threads[t].pc = "done" =>
                \A b \in threads[t].buf : heap[b].frees >= 1

\* C5: in a valid run at most N buffers are allocated for a hand-off and not
\* yet released; stated here for the states between two rounds of the loop
\* (every buffer has been handed to its thread), where the claim is weakest.
C5_AtMostNUnreleased ==
    (ValidRun /\ pc = "loop") => Cardinality(Unreleased) <= no_threads

\* C6: a run with message_count >= 1 that returns 0 has created
\* message_count - 1 threads, thread_ctr is message_count - 1, and one message
\* more was received than threads were created (the first is not dispatched:
\* no buffer ever holds payload 0).
C6_DispatchedIsCountMinusOne ==
    /\ \A b \in DOMAIN heap : 0 \notin heap[b].content
    /\ (exit_code = {0} /\ message_count >= 1) =>
          /\ n_created = message_count - 1
          /\ thread_ctr = message_count - 1
          /\ n_recv = n_created + 1

\* C6 witness: a run of three messages returned 0
C6_Witness ==
    /\ exit_code = {0}
    /\ message_count = 3
    /\ n_created = 2

\* who holds a pointer to buffer b and may still use it
Holders(b) ==
    {"main" : x \in {y \in msg_copy : y = b}}
        \cup {t \in DOMAIN threads : b \in threads[t].buf /\ threads[t].pc # "done"}

\* C7: every payload is held by one message object at a time (main's msg or
\* one buffer; after the move msg is empty), every buffer has at most one
\* holder, a buffer is not used after it was released, and it is released at
\* most once.
C7_SingleOwner ==
    /\ \A b \in DOMAIN heap : heap[b].content \cap msg = {}
    /\ \A b1, b2 \in DOMAIN heap :
          b1 # b2 => heap[b1].content \cap heap[b2].content = {}
    /\ pc \in {"join", "create", "incr"} => msg = {}
    /\ \A b \in DOMAIN heap :
          /\ Cardinality(Holders(b)) <= 1
          /\ heap[b].frees <= 1
          /\ heap[b].frees = 1 => Holders(b) = {}

\* C7 witness: a message was handed off: a running thread holds the buffer
\* with its payload, main holds nothing of it, and another buffer was released
C7_Witness ==
    /\ msg = {}
    /\ msg_copy = {}
    /\ \E t \in DOMAIN threads :
          /\ threads[t].pc # "done"
          /\ \A b \in threads[t].buf : heap[b].content = {t} /\ Holders(b) = {t}
    /\ \E b \in DOMAIN heap : heap[b].frees = 1

\* the aggregate report has just been printed
Reported == pc = "zmq_close"

\* C8 as stated: when the final report is printed at most N - 1 threads have
\* not finished.
C8_AtMostNMinusOneAtReport ==
    (Reported /\ ValidRun) => Cardinality(ThreadsAlive) <= no_threads - 1

\* C8 amended: when the final report is printed at most N threads have not
\* finished.
C8_AtMostNAtReport ==
    (Reported /\ ValidThreads) => Cardinality(ThreadsAlive) <= no_threads

\* C8 witness: the report is printed while N = 2 threads are still running
C8_Witness ==
    /\ Reported
    /\ no_threads = 2
    /\ Cardinality(ThreadsAlive) = 2

\* C9: a thread argument below 1 is rejected before anything else happens:
\* nothing is bound, nothing is received, no slot is computed.
C9_BelowOneRejected ==
    (argc > 5 /\ thread_arg < 1 /\ message_count >= 1) =>
        /\ "bound" \notin net
        /\ n_recv = 0
        /\ pc \notin {"join", "create", "incr", "crashed"}

\* C10: every interval report covers exactly 1000 received messages.
C10_IntervalCoversThousand ==
    n_reports >= 1 => interval_cover = INTERVAL

\* C11: a "data corrupt" line is printed for exactly the received messages
\* whose counter is not the previous one + 1, the baseline is always the
\* counter of the message received last (also after a gap), and the step that
\* prints the line does not end the run: main goes on to the hand-off.
C11_GapDiagnostics ==
    /\ [](n_gap_diag = n_nonunit /\ msg_counter = wire_counter)
    /\ [][n_gap_diag' # n_gap_diag => (exit_code' = {} /\ pc' = "move")]_vars

\* C11 witness: a run of four messages with one gap (the last counter is 4,
\* not 3) printed one line and returned 0
C11_Witness ==
    /\ exit_code = {0}
    /\ message_count = 4
    /\ wire_counter = 4
    /\ n_gap_diag = 1

\* a step in which a file_writer fails to open its file and returns
OpenFailed(t) ==
    /\ t \in DOMAIN threads
    /\ t \in DOMAIN threads'
    /\ DiskMode
    /\ threads[t].pc = "start"
    /\ threads'[t].pc = "done"

\* C12: anomalies do not change main's control flow: the step that prints a
\* size or a counter diagnostic goes on to the next statement, a step in which
\* a thread fails to open its file changes nothing of main, between two rounds
\* main has received i + 1 messages and created i threads whatever was
\* printed, and a run that returns 0 has received message_count messages and
\* created a thread for each but the first.
C12_AnomaliesNotFatal ==
    /\ [](pc = "loop" => (n_recv = i + 1 /\ n_created = i))
    /\ []((exit_code = {0} /\ message_count >= 1) =>
            (n_recv = message_count /\ n_created = n_recv - 1))
    /\ [][(n_size_diag' # n_size_diag \/ n_gap_diag' # n_gap_diag) =>
            (exit_code' = {} /\ pc' \in {"loop", "move"})]_vars
    /\ [][(\E t \in DOMAIN threads : OpenFailed(t)) => UNCHANGED mainVars]_vars

\* C12 witness: a run returned 0 after a message of the wrong size, a counter
\* gap and a failed open
C12_Witness ==
    /\ exit_code = {0}
    /\ message_count >= 2
    /\ n_size_diag >= 1
    /\ n_gap_diag >= 1
    /\ \E t \in DOMAIN threads :
          threads[t].pc = "done" /\ \A b \in threads[t].buf : heap[b].frees = 0

\* C13: in a valid run the aggregate report divides the number of messages
\* received while the full-run stopwatch ran (message_count - 1: the second
\* message through the last) by the elapsed time.
C13_AggregateCountsWindow ==
    (Reported /\ ValidRun) =>
        (report_count = win_all /\ report_count = message_count - 1)

\* buffers nobody will release: not released, not main's msg_copy, and not the
\* message of a thread that is still running
Leaked ==
    {b \in Unreleased : b \notin msg_copy /\ \A t \in ThreadsAlive : b \notin threads[t].buf}

\* C14: with the disk path "/network" no thread ever opens a file, every
\* thread that has returned has released its message, and no buffer is leaked.
C14_NetworkOnlyNoFiles ==
    disk_name = "/network" =>
        /\ opened = {}
        /\ \A t \in DOMAIN threads : threads[t].pc \in {"start", "done"}
        /\ \A t \in DOMAIN threads :
              threads[t].pc = "done" =>
                  \A b \in threads[t].buf : heap[b].frees = 1
        /\ Leaked = {}

\* C14 witness: a network-only run with three threads created, one of which
\* has returned and released its message
C14_Witness ==
    /\ disk_name = "/network"
    /\ n_created = 3
    /\ \E t \in DOMAIN threads :
          threads[t].pc = "done" /\ \A b \in threads[t].buf : heap[b].frees = 1

\* the transport object each set-up call acquires
SetupObject ==
    [zmq_init |-> "ctx", zmq_socket |-> "socket", zmq_bind |-> "bound",
     zmq_msg_init |-> "msg"]

SetupPcs == {"zmq_init", "zmq_socket", "zmq_bind", "zmq_msg_init"}

\* C15: a step in which zmq_init, zmq_socket, zmq_bind or zmq_msg_init does
\* not deliver its object ends the run at once with a non-zero return value,
\* nothing received and no thread created; and nothing happens after main has
\* returned (no retry).
C15_SetupFailureFatal ==
    /\ [][(pc \in SetupPcs /\ SetupObject[pc] \notin net') =>
            /\ pc' = "exit"
            /\ exit_code' # {}
            /\ 0 \notin exit_code'
            /\ n_recv' = 0
            /\ n_created' = 0
            /\ DOMAIN threads' = {}]_vars
    /\ [][exit_code = {}]_vars

\* C15 witness: zmq_bind failed: main returned -1 holding the context and the
\* socket, with nothing received
C15_Witness ==
    /\ exit_code = {-1}
    /\ net = {"ctx", "socket"}
    /\ n_recv = 0
    /\ n_created = 0

\* C16: with argc < 5 main returns 1 and does nothing else: no transport
\* object, no receive, no thread, no file.
C16_UsageError ==
    argc < 5 =>
        /\ pc \in {"start", "exit"}
        /\ pc = "exit" => exit_code = {1}
        /\ net = {}
        /\ n_recv = 0
        /\ n_created = 0
        /\ DOMAIN threads = {}
        /\ DOMAIN heap = {}
        /\ opened = {}

\* C16 witness: a run with three arguments has returned 1
C16_Witness ==
    /\ argc = 4
    /\ exit_code = {1}

\* threads joined so far when joins are made in dispatch order, thread k (the
\* one of round k) in round k + N: every round up to i (up to i - 1 before the
\* join of round i) whose index is at least N has joined one
JoinedInOrder ==
    LET rounds == IF pc \in {"create", "incr"} THEN i + 1 ELSE i
    IN  IF rounds > no_threads THEN rounds - no_threads ELSE 0

\* C17: with N in 1..10 the thread of round k was created in slot k mod N, a
\* slot's handle is the last thread created in it, and the threads not yet
\* joined are exactly the last ones created: thread k is joined in round
\* k + N, before any thread created after it.
C17_RoundRobinInOrder ==
    ValidThreads =>
        /\ \A t \in DOMAIN threads : threads[t].slot = (t - 1) % no_threads
        /\ \A t \in 1 .. n_created :
              file_writer_thread[(t - 1) % no_threads] >= t
        /\ DOMAIN threads = (JoinedInOrder + 1) .. n_created

\* C17 witness: N = 2, round 2 has joined thread 1 (of round 0) and created
\* thread 3 in its slot; thread 2 is still to be joined
C17_Witness ==
    /\ no_threads = 2
    /\ pc = "incr"
    /\ i = 2
    /\ DOMAIN threads = {2, 3}
    /\ file_writer_thread[0] = 3
    /\ file_writer_thread[1] = 2

\* the orchestrator's phase: 0 INIT, 1 BOUND, 2 RECEIVING, 3 DRAINING (the
\* loop has ended, the report is not yet printed), 4 DONE
PhaseOf ==
    CASE pc = "start" -> 0
      [] pc \in SetupPcs -> 1
      [] pc \in {"recv_first", "move", "join", "create", "incr"} -> 2
      [] pc = "loop" -> IF LoopContinues THEN 2 ELSE 3
      [] OTHER -> 4

\* a run with enough arguments, at least one message, and a thread argument
\* (if given) of at least 1
NominalConfig ==
    /\ argc >= 5
    /\ message_count >= 1
    /\ argc > 5 => thread_arg >= 1

\* main returned -1: one of its zmq calls failed
CallFailed == exit_code = {-1}

\* the phases are passed in order, a run that returns 0 has made
\* message_count receives
C18_Safety ==
    /\ [][PhaseOf' >= PhaseOf]_vars
    /\ []((exit_code = {0} /\ message_count >= 1) => n_recv = message_count)

\* C18: for message_count >= 1, unless one of main's zmq calls fails, the run
\* passes through INIT, BOUND, RECEIVING, DRAINING, DONE in order, never goes
\* back, makes exactly message_count receives and eventually returns 0.
C18_Terminates ==
    /\ C18_Safety
    /\ NominalConfig =>
          /\ \A k \in 1 .. 3 : <>(CallFailed \/ PhaseOf = k)
          /\ <>(CallFailed \/ exit_code = {0})

\* C18 witness: a run of at least three messages is done: it returned 0 after
\* message_count receives
C18_Witness ==
    /\ exit_code = {0}
    /\ message_count >= 3
    /\ n_recv = message_count
    /\ PhaseOf = 4

\* C19: for message_count >= 0 the run receives at most max(1, message_count)
\* messages and dispatches at most max(0, message_count - 1) workers.
C19_ReceivesBounded ==
    (message_count >= 0 /\ ValidThreads) =>
        /\ n_recv <= (IF message_count >= 1 THEN message_count ELSE 1)
        /\ n_created <= (IF message_count >= 1 THEN message_count - 1 ELSE 0)

\* C20: in disk mode the k-th dispatched worker (thread k + 1) opens its file
\* under the value thread_ctr has when it formats the name; that value lies in
\* k .. k + N and is at most message_count - 1.
C20_FileIndexRange ==
    (ValidRun /\ DiskMode) =>
        \A e \in opened :
            /\ e[1] - 1 <= e[2]
            /\ e[2] <= e[1] - 1 + no_threads
            /\ e[2] <= message_count - 1

\* C20 witness: with two slots the first worker (k = 0) formats its name only
\* when main is about to reuse its slot, and uses index k + N = 2
C20_Witness ==
    /\ ValidRun /\ DiskMode
    /\ no_threads = 2
    /\ <<1, 2>> \in opened

====
